---- MODULE Spec2Model ----
(***************************************************************************)
(* A model of inertia-loco: the axum extractor `Inertia`                   *)
(* (src/src/lib.rs), the shared `InertiaConfig` (src/src/config.rs) and    *)
(* the conversion of `Response` into a wire response                       *)
(* (src/src/response.rs).                                                  *)
(*                                                                         *)
(* A request goes through three steps, each one action:                    *)
(*   FromRequestParts  the extractor runs (it may reject with 409),        *)
(*   Handler           the handler body runs and calls Inertia::render,    *)
(*   IntoResponse      the value returned by the handler is converted.     *)
(* A panic (`expect`, `unwrap`) unwinds the request's task: the request    *)
(* ends with the outcome "panic" and this layer produces no response.      *)
(*                                                                         *)
(* request.rs, partial.rs, props.rs and page.rs are not part of the source *)
(* tree; Request_from_request_parts, filter and serialize are modelled     *)
(* from the specification (sections 4.1 - 4.3).                            *)
(***************************************************************************)
EXTENDS Integers, Sequences, FiniteSets, TLC

\* ------------------------------------------------------------------------
\* Bounds and input universes
\* ------------------------------------------------------------------------

\* Number of requests in flight at once in SpecConc.
NumRequests == 2

Reqs == 1 .. NumRequests

\* Option<T>
None == [tag |-> "None"]
Some(x) == [tag |-> "Some", val |-> x]
Option(S) == {None} \cup {Some(x) : x \in S}
IsSome(o) == o.tag = "Some"

\* Result<T, E>
Ok(x) == [tag |-> "Ok", val |-> x]
Err(e) == [tag |-> "Err", err |-> e]
IsOk(res) == res.tag = "Ok"

Methods == {"GET", "POST", "PUT", "PATCH", "DELETE"}

Versions == {"v1", "v2"}

Uris == { [path |-> "/test", query |-> None],
          [path |-> "/posts", query |-> Some("page=2")] }

\* Values a client may send in the X-Inertia header.
MarkerValues == {"true", "True", "false"}

Components == {"Pages/Home", "Pages/Other"}

\* Keys of the props a handler passes to render, and keys a client may name
\* in X-Inertia-Partial-Data ("missing" is a key no handler supplies).
PropKeys == {"posts", "count"}
DataKeys == {"posts", "missing"}
ExceptKeys == {"count"}

\* A prop value that serde cannot convert to JSON.
Unserializable == "<unserializable>"
PropValues == {"[a,b]", "2", Unserializable}

\* The header map of a request, restricted to the headers the crate reads.
\* The two csv headers are represented by their set of trimmed, non-empty
\* entries.
AllHeaders ==
    [ xInertia         : Option(MarkerValues),
      xInertiaVersion  : Option(Versions),
      partialComponent : Option(Components),
      partialData      : Option(SUBSET DataKeys),
      partialExcept    : Option({ExceptKeys}) ]

\* http::request::Parts, restricted to method, uri and headers.
AllParts == [method : Methods, uri : Uris, headers : AllHeaders]

\* The props handlers pass: posts is a list, count a number, and either may
\* hold a value that cannot be serialized.
AllProps ==
    { f \in [PropKeys -> PropValues] : f["posts"] # "2" /\ f["count"] # "[a,b]" }

\* Outcomes of the tera renderer (template missing, template error, ...).
Renderers == {"ok", "fail"}

\* The requests used when several are in flight: no partial-reload headers,
\* one uri, GET or POST.
ConcParts ==
    { p \in AllParts :
        /\ p.method \in {"GET", "POST"}
        /\ p.uri.path = "/test"
        /\ p.headers.xInertia \in {None, Some("true")}
        /\ p.headers.partialComponent = None
        /\ p.headers.partialData = None
        /\ p.headers.partialExcept = None }

ConcProps == { f \in AllProps : f["posts"] = "[a,b]" }

ConcComponents == {"Pages/Home"}

\* loco_rs::environment::Environment (Any(String) is left out).
Environments == {"Development", "Production", "Test"}

\* The directories and manifest paths a builder may be given, and the file
\* system they are looked up in: "assets/views" does not exist and the
\* default manifest cannot be read.
ViewsDirs == {"assets/views", "test-assets"}
ManifestPaths == { "frontend/dist/.vite/manifest.json",
                   "test-assets/.dist/manifest.json",
                   "dist/manifest.json" }
Exists(dir) == dir = "test-assets"
ReadFile(path) ==
    IF path = "test-assets/.dist/manifest.json" THEN Ok("manifest-a")
    ELSE IF path = "dist/manifest.json" THEN Ok("manifest-b")
    ELSE Err("io::Error")

\* InertiaConfigBuilder after new(environment) and its setters.
Builders ==
    [ environment        : Environments,
      views_dir          : ViewsDirs,
      application_layout : {"layout.html"},
      vite_manifest_path : ManifestPaths ]

\* ------------------------------------------------------------------------
\* State
\* ------------------------------------------------------------------------

VARIABLES
    builder, \* the InertiaConfigBuilder (None once build has consumed it)
    built,   \* the result of build: None before, then Ok(config) or Err
    arc,     \* the heap cell behind Arc<Inner>: arc[a] is the Inner value
    pc,      \* pc[r]: "idle", "extracted", "rendered" or "done"
    parts,   \* parts[r]: the request's Parts (None while idle)
    inertia, \* inertia[r]: the extracted Inertia value (None if there is none)
    args,    \* args[r]: the (component, props) the handler passed to render
    resp,    \* resp[r]: the Response returned by render (None if there is none)
    wire,    \* wire[r]: how the request ended (None while in flight)
    trace    \* trace[r]: the calls made while serving r, in order

vars == <<builder, built, arc, pc, parts, inertia, args, resp, wire, trace>>

\* The one Arc allocated by InertiaConfig::new.
TheArc == "arc0"

\* InertiaConfig: a handle on the shared Inner; clones are equal handles.
InertiaConfig(a) == [inner |-> a]

\* ------------------------------------------------------------------------
\* config.rs
\* ------------------------------------------------------------------------

\* struct Inner (tera is represented by the outcome given to layout).
Inner(environment, version, application_layout) ==
    [ environment        |-> environment,
      version            |-> version,
      application_layout |-> application_layout ]

\* InertiaConfig::new, up to the allocation of the Arc: init_tera fails
\* when the views directory does not exist.
InertiaConfig_new(environment, views_dir, vite_manifest_path, application_layout, v) ==
    IF ~Exists(views_dir)
    THEN Err("missing views directory")
    ELSE Ok(Inner(environment, v, application_layout))

\* The hex SHA-1 digest of the manifest bytes.
Sha1Hex(bytes) == IF bytes = "manifest-a" THEN "v1" ELSE "v2"

\* InertiaConfigBuilder::hash_manifest
hash_manifest(self) ==
    LET manifest_bytes == ReadFile(self.vite_manifest_path)
    IN  IF ~IsOk(manifest_bytes) THEN manifest_bytes
        ELSE Ok(Sha1Hex(manifest_bytes.val))

\* build, were the manifest hashed for every environment.
build_always_hashed(self) ==
    LET v == hash_manifest(self)
    IN  IF ~IsOk(v) THEN v
        ELSE InertiaConfig_new(self.environment, self.views_dir,
                               self.vite_manifest_path, self.application_layout,
                               Some(v.val))

\* InertiaConfigBuilder::build
build(self) ==
    IF self.environment = "Development"
    THEN InertiaConfig_new(self.environment, self.views_dir,
                           self.vite_manifest_path, self.application_layout, None)
    ELSE LET v == hash_manifest(self)
         IN  IF ~IsOk(v) THEN v
             ELSE InertiaConfig_new(self.environment, self.views_dir,
                                    self.vite_manifest_path, self.application_layout,
                                    Some(v.val))

\* version, were the stored version dropped once a request has panicked.
version_invalidated(self) ==
    IF \E q \in Reqs : wire[q] # None /\ wire[q].kind = "panic"
    THEN None
    ELSE arc[self.inner].version

\* InertiaConfig::version: a clone of the version stored behind the Arc.
version(self) == arc[self.inner].version

\* InertiaConfig::layout: render the application layout with the page as
\* the template context "props". `renderer` is the outcome of tera.
layout(self, props, renderer) ==
    IF renderer = "ok"
    THEN Ok([template |-> arc[self.inner].application_layout, props |-> props])
    ELSE Err("tera::Error")

\* ------------------------------------------------------------------------
\* request.rs, partial.rs, props.rs (modelled from the specification)
\* ------------------------------------------------------------------------

\* ASCII lower-casing on the header values of MarkerValues.
Lower(s) == IF s = "True" THEN "true" ELSE s

\* Section 4.1: the request classifier. It never fails.
Request_from_request_parts(p) ==
    LET h == p.headers
        is_xhr == IsSome(h.xInertia) /\ Lower(h.xInertia.val) = "true"
    IN  Ok([ is_xhr  |-> is_xhr,
             version |-> IF is_xhr THEN h.xInertiaVersion ELSE None,
             url     |-> p.uri,
             partial |-> IF IsSome(h.partialComponent)
                         THEN Some([ target_component |-> h.partialComponent.val,
                                     only   |-> h.partialData,
                                     except |-> h.partialExcept ])
                         ELSE None ])

Restrict(f, S) == [k \in (DOMAIN f) \cap S |-> f[k]]

\* Section 4.2: the partial filter.
filter(full_props, directive, current_component) ==
    IF \/ ~IsSome(directive)
       \/ directive.val.target_component # current_component
    THEN full_props
    ELSE IF IsSome(directive.val.only)
    THEN Restrict(full_props, directive.val.only.val)
    ELSE IF IsSome(directive.val.except)
    THEN Restrict(full_props, (DOMAIN full_props) \ directive.val.except.val)
    ELSE full_props

\* Section 4.3: Props::serialize. Only the props the filter keeps are
\* evaluated; one that cannot be converted fails the whole serialization.
serialize(props, partial, component) ==
    LET kept == filter(props, partial, component)
    IN  IF \E k \in DOMAIN kept : kept[k] = Unserializable
        THEN Err("SerializationError")
        ELSE Ok(kept)

\* ------------------------------------------------------------------------
\* lib.rs
\* ------------------------------------------------------------------------

EmptyHeaders == [n \in {} |-> ""]
Insert(headers, name, value) ==
    [n \in (DOMAIN headers) \cup {name} |-> IF n = name THEN value ELSE headers[n]]

CONFLICT == 409

\* A wire response, and the outcome of a task that panicked.
WireResponse(status, headers, body) ==
    [kind |-> "response", status |-> status, headers |-> headers, body |-> body]
Panic(msg) == [kind |-> "panic", msg |-> msg]

Inertia_new(request, config) == [request |-> request, config |-> config]

\* from_request_parts with one conjunct of the conflict condition changed:
\* `which` names the change.
from_request_parts_with(p, config, which) ==
    LET request == Request_from_request_parts(p).val
    IN  IF /\ (which = "any_method" \/ p.method = "GET")
           /\ (which = "any_client" \/ request.is_xhr)
           /\ (which = "any_version" \/ IsSome(version(config)))
           /\ request.version # version(config)
           /\ (which = "sent_version" => IsSome(request.version))
        THEN Err([ status  |-> CONFLICT,
                   headers |-> Insert(EmptyHeaders, "X-Inertia-Location", p.uri.path) ])
        ELSE Ok(Inertia_new(request, config))

\* ... a request without a version header never conflicts.
from_request_parts_sent_version(p, config) ==
    from_request_parts_with(p, config, "sent_version")

\* ... the X-Inertia marker is not tested.
from_request_parts_any_client(p, config) ==
    from_request_parts_with(p, config, "any_client")

\* ... config.version().is_some() is not tested.
from_request_parts_any_version(p, config) ==
    from_request_parts_with(p, config, "any_version")

\* ... the method is not tested.
from_request_parts_any_method(p, config) ==
    from_request_parts_with(p, config, "any_method")

\* <Inertia as FromRequestParts>::from_request_parts, after the Extension
\* was extracted (the router carries the Extension(config) layer).
from_request_parts(p, config) ==
    LET res == Request_from_request_parts(p)
    IN  IF ~IsOk(res) THEN res
        ELSE LET request == res.val
             IN  IF /\ p.method = "GET"
                    /\ request.is_xhr
                    /\ IsSome(version(config))
                    /\ request.version # version(config)
                 THEN Err([ status  |-> CONFLICT,
                            headers |-> Insert(EmptyHeaders, "X-Inertia-Location",
                                               p.uri.path) ])
                 ELSE Ok(Inertia_new(request, config))

\* The calls of config.version() made by from_request_parts: conjuncts of
\* the `if` are evaluated left to right and stop at the first false one.
from_request_parts_calls(p, config) ==
    LET request == Request_from_request_parts(p).val
        call == [op |-> "version", ret |-> version(config)]
    IN  IF p.method = "GET" /\ request.is_xhr
        THEN IF IsSome(version(config)) THEN <<call, call>> ELSE <<call>>
        ELSE <<>>

\* render, were the partial directive not handed to serialize.
render_no_partial(self, component, props) ==
    LET request == self.request
        ser == serialize(props, None, component)
    IN  IF ~IsOk(ser)
        THEN Err(Panic("serialization failure"))
        ELSE Ok([ page    |-> [ component |-> component,
                                props     |-> ser.val,
                                url       |-> request.url,
                                version   |-> version(self.config) ],
                  request |-> request,
                  config  |-> self.config ])

\* Inertia::render. `expect` panics on a serialization failure.
render(self, component, props) ==
    LET request == self.request
        url == request.url
        ser == serialize(props, request.partial, component)
    IN  IF ~IsOk(ser)
        THEN Err(Panic("serialization failure"))
        ELSE Ok([ page    |-> [ component |-> component,
                                props     |-> ser.val,
                                url       |-> url,
                                version   |-> version(self.config) ],
                  request |-> request,
                  config  |-> self.config ])

\* ------------------------------------------------------------------------
\* response.rs
\* ------------------------------------------------------------------------

\* into_response, were the X-Inertia header put in a fresh header map, so
\* that X-Inertia-Version is lost on the JSON path.
into_response_fresh_headers(self, renderer) ==
    LET v == version(self.config)
        headers == IF IsSome(v)
                   THEN Insert(EmptyHeaders, "X-Inertia-Version", v.val)
                   ELSE EmptyHeaders
    IN  IF self.request.is_xhr
        THEN WireResponse(200, Insert(EmptyHeaders, "X-Inertia", "true"),
                          [kind |-> "json", page |-> self.page])
        ELSE LET html == layout(self.config, self.page, renderer)
             IN  IF IsOk(html)
                 THEN WireResponse(200, headers, [kind |-> "html", html |-> html.val])
                 ELSE Panic("called Result::unwrap() on an Err value")

\* <Response as IntoResponse>::into_response. `unwrap` panics when the
\* layout fails to render.
into_response(self, renderer) ==
    LET v == version(self.config)
        headers == IF IsSome(v)
                   THEN Insert(EmptyHeaders, "X-Inertia-Version", v.val)
                   ELSE EmptyHeaders
    IN  IF self.request.is_xhr
        THEN WireResponse(200, Insert(headers, "X-Inertia", "true"),
                          [kind |-> "json", page |-> self.page])
        ELSE LET html == layout(self.config, self.page, renderer)
             IN  IF IsOk(html)
                 THEN WireResponse(200, headers, [kind |-> "html", html |-> html.val])
                 ELSE Panic("called Result::unwrap() on an Err value")

\* ------------------------------------------------------------------------
\* Initial state and actions
\* ------------------------------------------------------------------------

\* A builder was set up; nothing is built and no request has arrived.
Init ==
    /\ builder \in {Some(b) : b \in Builders}
    /\ built = None
    /\ arc = [a \in {} |-> None]
    /\ pc = [r \in Reqs |-> "idle"]
    /\ parts = [r \in Reqs |-> None]
    /\ inertia = [r \in Reqs |-> None]
    /\ args = [r \in Reqs |-> None]
    /\ resp = [r \in Reqs |-> None]
    /\ wire = [r \in Reqs |-> None]
    /\ trace = [r \in Reqs |-> <<>>]

\* The config is built (InertiaInitializer::after_routes, or the set-up of
\* an application) and, if that succeeds, layered on the router as an
\* Extension. When build fails there is no router and nothing is served.
Build ==
    /\ IsSome(builder)
    /\ LET res == build(builder.val)
       IN  IF IsOk(res)
           THEN /\ arc' = [a \in {TheArc} |-> res.val]
                /\ built' = Ok(InertiaConfig(TheArc))
           ELSE /\ arc' = arc
                /\ built' = res
    /\ builder' = None
    /\ UNCHANGED <<pc, parts, inertia, args, resp, wire, trace>>

\* Request r arrives with Parts p and axum runs the extractor. A rejection
\* (StatusCode, HeaderMap) is answered as is and the handler is not called.
FromRequestParts(r, p) ==
    /\ IsOk(built)
    /\ LET config == built.val
           res == from_request_parts(p, config)
       IN  /\ parts' = [parts EXCEPT ![r] = p]
           /\ trace' = [trace EXCEPT ![r] = @ \o from_request_parts_calls(p, config)]
           /\ IF IsOk(res)
              THEN /\ inertia' = [inertia EXCEPT ![r] = res.val]
                   /\ pc' = [pc EXCEPT ![r] = "extracted"]
                   /\ wire' = wire
              ELSE /\ inertia' = inertia
                   /\ pc' = [pc EXCEPT ![r] = "done"]
                   /\ wire' = [wire EXCEPT ![r] =
                                 WireResponse(res.err.status, res.err.headers,
                                              [kind |-> "empty"])]
    /\ UNCHANGED <<builder, built, arc, args, resp>>

\* The handler body of request r: `i.render(component, props)`.
Handler(r, component, props) ==
    /\ LET res == render(inertia[r], component, props)
           ser == [op |-> "serialize", ok |-> IsOk(res)]
       IN  /\ args' = [args EXCEPT ![r] = [component |-> component, props |-> props]]
           /\ IF IsOk(res)
              THEN /\ resp' = [resp EXCEPT ![r] = res.val]
                   /\ pc' = [pc EXCEPT ![r] = "rendered"]
                   /\ wire' = wire
                   /\ trace' = [trace EXCEPT ![r] =
                                  @ \o << [op |-> "handler"], ser,
                                          [op |-> "version", ret |-> res.val.page.version] >>]
              ELSE /\ resp' = resp
                   /\ pc' = [pc EXCEPT ![r] = "done"]
                   /\ wire' = [wire EXCEPT ![r] = res.err]
                   /\ trace' = [trace EXCEPT ![r] = @ \o << [op |-> "handler"], ser >>]
    /\ UNCHANGED <<builder, built, arc, parts, inertia>>

\* axum converts the handler's return value; `renderer` is what tera does
\* if the layout is rendered.
IntoResponse(r, renderer) ==
    /\ LET self == resp[r]
           call == [op |-> "version", ret |-> version(self.config)]
           out == into_response(self, renderer)
       IN  /\ wire' = [wire EXCEPT ![r] = out]
           /\ trace' = [trace EXCEPT ![r] =
                          IF self.request.is_xhr
                          THEN @ \o <<call>>
                          ELSE @ \o <<call, [op |-> "layout", ok |-> (out.kind = "response")]>>]
    /\ pc' = [pc EXCEPT ![r] = "done"]
    /\ UNCHANGED <<builder, built, arc, parts, inertia, args, resp>>

\* The steps of request r, with the request drawn from P and the handler's
\* arguments from C and A.
Serve(r, P, C, A) ==
    \/ /\ pc[r] = "idle"
       /\ IsOk(built)
       /\ \E p \in P : FromRequestParts(r, p)
    \/ /\ pc[r] = "extracted"
       /\ \E c \in C, props \in A : Handler(r, c, props)
    \/ /\ pc[r] = "rendered"
       /\ \E renderer \in Renderers : IntoResponse(r, renderer)

First == CHOOSE r \in Reqs : \A q \in Reqs : r <= q

\* One request, drawn from the whole input space.
Next ==
    \/ Build
    \/ Serve(First, AllParts, Components, AllProps)

Spec == Init /\ [][Next]_vars

\* NumRequests requests served concurrently, their steps interleaved.
NextConc ==
    \/ Build
    \/ \E r \in Reqs : Serve(r, ConcParts, ConcComponents, ConcProps)

SpecConc == Init /\ [][NextConc]_vars

\* ------------------------------------------------------------------------
\* Properties
\* ------------------------------------------------------------------------

Started(r) == pc[r] # "idle"
Done(r) == pc[r] = "done"
Answered(r) == Done(r) /\ wire[r].kind = "response"
Panicked(r) == Done(r) /\ wire[r].kind = "panic"

\* The request carries the Inertia marker.
IsInertia(r) == Request_from_request_parts(parts[r]).val.is_xhr

\* The version the config was constructed with.
ConfigVersion == IF TheArc \in DOMAIN arc THEN arc[TheArc].version ELSE None

Called(r, op) == \E i \in DOMAIN trace[r] : trace[r][i].op = op
Failed(r, op) == \E i \in DOMAIN trace[r] : trace[r][i].op = op /\ ~trace[r][i].ok
VersionCalls(r) ==
    { trace[r][i].ret : i \in {j \in DOMAIN trace[r] : trace[r][j].op = "version"} }

HasHeader(w, name) == name \in DOMAIN w.headers
Is409(r) == Answered(r) /\ wire[r].status = CONFLICT

\* The version a response announces in X-Inertia-Version.
HeaderVersion(w) ==
    IF HasHeader(w, "X-Inertia-Version") THEN Some(w.headers["X-Inertia-Version"]) ELSE None

\* C1: a GET request with the Inertia marker, while the config has a
\* version that differs from the request's X-Inertia-Version header (an
\* absent header differs), ends in extraction with status 409 and
\* X-Inertia-Location equal to the request path; the handler never runs
\* and render is never called for it.
C1_ConflictRejects ==
    \A r \in Reqs :
        ( /\ Started(r)
          /\ parts[r].method = "GET"
          /\ IsInertia(r)
          /\ IsSome(ConfigVersion)
          /\ parts[r].headers.xInertiaVersion # ConfigVersion )
        => /\ Is409(r)
           /\ wire[r].headers = [n \in {"X-Inertia-Location"} |-> parts[r].uri.path]
           /\ ~Called(r, "handler")
           /\ ~Called(r, "serialize")
           /\ inertia[r] = None
           /\ resp[r] = None

\* C1 witness: a GET Inertia request with no version header was rejected
\* with 409 by a config that has a version.
C1_Witness ==
    \E r \in Reqs :
        /\ Is409(r)
        /\ parts[r].method = "GET"
        /\ parts[r].headers.xInertiaVersion = None
        /\ parts[r].uri.path = "/posts"
        /\ IsSome(ConfigVersion)

\* C2: a request without the Inertia marker is never rejected by the
\* extractor, and whenever it is answered the answer is the HTML document
\* the layout renderer produced for its page: not the JSON envelope, no
\* X-Inertia header, not a 409 -- whatever its method and its version and
\* partial-reload headers.
C2_NonInertiaIsDocument ==
    \A r \in Reqs :
        (Started(r) /\ ~IsInertia(r))
        => /\ inertia[r] # None
           /\ Answered(r)
              => /\ wire[r].status # CONFLICT
                 /\ ~HasHeader(wire[r], "X-Inertia")
                 /\ wire[r].body.kind = "html"
                 /\ wire[r].body.html.props = resp[r].page
                 /\ Called(r, "layout") /\ ~Failed(r, "layout")

\* C2 witness: a POST without the marker, carrying a stale version header
\* and partial-reload headers, was answered with the HTML document.
C2_Witness ==
    \E r \in Reqs :
        /\ Answered(r)
        /\ parts[r].method = "POST"
        /\ parts[r].headers.xInertia = Some("false")
        /\ IsSome(parts[r].headers.xInertiaVersion)
        /\ parts[r].headers.xInertiaVersion # ConfigVersion
        /\ IsSome(ConfigVersion)
        /\ IsSome(parts[r].headers.partialComponent)
        /\ wire[r].body.kind = "html"

\* C3: every answer to an Inertia request other than the 409 is the JSON
\* envelope of the page render built (component, props, url, version), with
\* X-Inertia: true, and with X-Inertia-Version exactly when the config has
\* a version, which is then its value; the layout renderer is never called
\* for an Inertia request.
C3_InertiaIsJson ==
    \A r \in Reqs :
        (Started(r) /\ IsInertia(r))
        => /\ ~Called(r, "layout")
           /\ (Answered(r) /\ wire[r].status # CONFLICT)
              => /\ wire[r].status = 200
                 /\ wire[r].body.kind = "json"
                 /\ wire[r].body.page = resp[r].page
                 /\ DOMAIN wire[r].body.page = {"component", "props", "url", "version"}
                 /\ HasHeader(wire[r], "X-Inertia")
                 /\ wire[r].headers["X-Inertia"] = "true"
                 /\ HasHeader(wire[r], "X-Inertia-Version") <=> IsSome(ConfigVersion)
                 /\ HeaderVersion(wire[r]) = ConfigVersion

\* C3 witness: an Inertia GET whose version matches was answered with the
\* JSON envelope and the X-Inertia-Version header.
C3_Witness ==
    \E r \in Reqs :
        /\ Answered(r)
        /\ IsInertia(r)
        /\ parts[r].method = "GET"
        /\ wire[r].body.kind = "json"
        /\ HasHeader(wire[r], "X-Inertia-Version")

\* C4: while the config has no version no request is answered with 409,
\* with or without a version header: extraction succeeds, so the handler
\* is run, and every page built has version null.
C4_NoVersionNoConflict ==
    ~IsSome(ConfigVersion)
    => \A r \in Reqs :
          Started(r)
          => /\ ~Is409(r)
             /\ inertia[r] # None
             /\ resp[r] # None => resp[r].page.version = None
             /\ Answered(r) => ~HasHeader(wire[r], "X-Inertia-Version")

\* C4 witness: without a config version, an Inertia GET that sent a
\* version header was answered with a page whose version is null.
C4_Witness ==
    \E r \in Reqs :
        /\ ~IsSome(ConfigVersion)
        /\ Answered(r)
        /\ parts[r].method = "GET"
        /\ IsInertia(r)
        /\ IsSome(parts[r].headers.xInertiaVersion)
        /\ wire[r].body.kind = "json"
        /\ wire[r].body.page.version = None

\* C5: an Inertia request whose method is not GET is never answered with
\* 409, even when its version differs from the config's: extraction
\* succeeds, so the handler is run, and an answer is the JSON envelope.
C5_ConflictOnlyOnGet ==
    \A r \in Reqs :
        (Started(r) /\ IsInertia(r) /\ parts[r].method # "GET")
        => /\ ~Is409(r)
           /\ inertia[r] # None
           /\ Answered(r) => (wire[r].status = 200 /\ wire[r].body.kind = "json")

\* C5 witness: an Inertia DELETE with a stale version was answered with
\* the JSON envelope.
C5_Witness ==
    \E r \in Reqs :
        /\ Answered(r)
        /\ IsInertia(r)
        /\ parts[r].method = "DELETE"
        /\ IsSome(ConfigVersion)
        /\ parts[r].headers.xInertiaVersion # ConfigVersion
        /\ wire[r].body.kind = "json"

\* The request's partial-reload headers name component c.
Targets(r, c) == parts[r].headers.partialComponent = Some(c)

C7_RenderErrorIs5xx ==
    \A r \in Reqs :
        /\ (Done(r) /\ ~IsInertia(r) /\ Failed(r, "layout"))
           => (Answered(r) /\ wire[r].status \in 500 .. 599)
        /\ (Started(r) /\ IsInertia(r)) => ~Failed(r, "layout")

\* C8: when the serialization of the props fails in render, the request
\* ends with a 5xx response and no page is built.
C8_SerializationErrorIs5xx ==
    \A r \in Reqs :
        (Done(r) /\ Failed(r, "serialize"))
        => /\ resp[r] = None
           /\ Answered(r) /\ wire[r].status \in 500 .. 599

\* C9: the page built for a request without the Inertia marker holds the
\* props the handler passed to render, unfiltered, whatever partial-reload
\* headers the request carries.
C9_NonInertiaUnfiltered ==
    \A r \in Reqs :
        (resp[r] # None /\ ~IsInertia(r))
        => /\ resp[r].page.props = args[r].props
           /\ Answered(r) => wire[r].body.html.props.props = args[r].props

\* C10: every call of config.version(), by any request at any time, returns
\* the version the config was constructed with, whatever other requests
\* did in between (conflict, panic in render, panic in the layout); so the
\* version of the conflict check, the page's version and the
\* X-Inertia-Version header of one request agree.
C10_VersionFixed ==
    /\ \A r \in Reqs : VersionCalls(r) \subseteq {ConfigVersion}
    /\ Cardinality(UNION {VersionCalls(r) : r \in Reqs}) <= 1
    /\ \A r \in Reqs :
          (Answered(r) /\ wire[r].status # CONFLICT)
          => /\ HeaderVersion(wire[r]) = resp[r].page.version
             /\ VersionCalls(r) = {resp[r].page.version}

\* C10 witness: one request made all its calls of version() (conflict
\* check, page, header) and was answered although another one panicked and
\* a third outcome, if any, may be a conflict.
C10_Witness ==
    \E r, q \in Reqs :
        /\ r # q
        /\ Panicked(q)
        /\ Answered(r)
        /\ wire[r].status = 200
        /\ IsSome(resp[r].page.version)
        /\ Len(trace[r]) >= 6

\* C11: a config built for the Development environment has no version, so
\* no request is answered with 409 and no response carries
\* X-Inertia-Version; for any other environment build fails or the config
\* has a version (the digest of the manifest), so every GET Inertia request
\* whose version header is absent or different is answered with 409.
C11_BuildDecidesVersion ==
    IsOk(built)
    => LET inner == arc[built.val.inner]
       IN  IF inner.environment = "Development"
           THEN /\ inner.version = None
                /\ \A r \in Reqs :
                      Started(r)
                      => /\ ~Is409(r)
                         /\ Answered(r) => ~HasHeader(wire[r], "X-Inertia-Version")
           ELSE /\ IsSome(inner.version)
                /\ \A r \in Reqs :
                      ( /\ Started(r)
                        /\ parts[r].method = "GET"
                        /\ IsInertia(r)
                        /\ parts[r].headers.xInertiaVersion # inner.version )
                      => Is409(r)

\* C11 witness: a config built for the Test environment from a readable
\* manifest answered a GET Inertia request without version header with 409.
C11_Witness ==
    /\ IsOk(built)
    /\ arc[built.val.inner].environment = "Test"
    /\ arc[built.val.inner].version = Some("v2")
    /\ \E r \in Reqs :
          /\ Is409(r)
          /\ parts[r].method = "GET"
          /\ parts[r].headers.xInertiaVersion = None

====
